---- MODULE Spec2Model ----
(***************************************************************************)
(* 8-puzzle search engine of solucao.py: the successor generator, expande, *)
(* the two heuristics and the A* searches astar_hamming / astar_manhattan, *)
(* with the unimplemented bfs / dfs.                                       *)
(*                                                                         *)
(* A state string is a sequence of nine one-character strings.  Python's   *)
(* 0-based indices are kept in every computation; position i of a string   *)
(* is read as estado[i + 1].                                               *)
(***************************************************************************)
EXTENDS Integers, Sequences, FiniteSets, Bags, TLC

\* Longest scramble (in blank slides from the goal) of the start states.
MaxEmbaralha == 8

\* Longest scramble of the start states of the runs checked for progress.
MaxJusta == 7

objetivo == <<"1", "2", "3", "4", "5", "6", "7", "8", "_">>

\* A known unsolvable instance: the goal with one adjacent pair swapped.
insoluvel == <<"2", "1", "3", "4", "5", "6", "7", "8", "_">>

Simbolos == {"1", "2", "3", "4", "5", "6", "7", "8", "_"}

Abs(x) == IF x < 0 THEN -x ELSE x

\* str.rfind(ch): the highest index holding ch, -1 when there is none.
rfind(estado, ch) ==
    LET ocorre == {i \in 0..(Len(estado) - 1) : estado[i + 1] = ch}
    IN  IF ocorre = {} THEN -1
        ELSE CHOOSE i \in ocorre : \A j \in ocorre : j <= i

\* str.index(ch): the lowest index holding ch.
index(estado, ch) ==
    LET ocorre == {i \in 0..(Len(estado) - 1) : estado[i + 1] = ch}
    IN  CHOOSE i \in ocorre : \A j \in ocorre : i <= j

\* The swap with the second assignment lost: position j keeps its symbol.
trocar_sem_volta(estado, i, j) ==
    [k \in 1..Len(estado) |-> IF k = i + 1 THEN estado[j + 1] ELSE estado[k]]

\* trocar(estado, i, j): the string with the characters at i and j swapped.
trocar(estado, i, j) ==
    [k \in 1..Len(estado) |->
        IF k = i + 1 THEN estado[j + 1]
        ELSE IF k = j + 1 THEN estado[i + 1]
        ELSE estado[k]]

\* The generator with the labels of the two vertical slides exchanged.
sucessor_rotulos_trocados(estado) ==
    LET espacoVazio == rfind(estado, "_")
        linha == espacoVazio \div 3
        coluna == espacoVazio % 3
    IN  (IF coluna > 0
            THEN << <<"esquerda", trocar(estado, espacoVazio, espacoVazio - 1)>> >>
            ELSE <<>>)
        \o (IF coluna < 2
            THEN << <<"direita", trocar(estado, espacoVazio, espacoVazio + 1)>> >>
            ELSE <<>>)
        \o (IF linha > 0
            THEN << <<"abaixo", trocar(estado, espacoVazio, espacoVazio - 3)>> >>
            ELSE <<>>)
        \o (IF linha < 2
            THEN << <<"acima", trocar(estado, espacoVazio, espacoVazio + 3)>> >>
            ELSE <<>>)

\* sucessor(estado): the list of (acao, novo_estado) pairs, in source order.
sucessor(estado) ==
    LET espacoVazio == rfind(estado, "_")
        linha == espacoVazio \div 3
        coluna == espacoVazio % 3
    IN  (IF coluna > 0
            THEN << <<"esquerda", trocar(estado, espacoVazio, espacoVazio - 1)>> >>
            ELSE <<>>)
        \o (IF coluna < 2
            THEN << <<"direita", trocar(estado, espacoVazio, espacoVazio + 1)>> >>
            ELSE <<>>)
        \o (IF linha > 0
            THEN << <<"acima", trocar(estado, espacoVazio, espacoVazio - 3)>> >>
            ELSE <<>>)
        \o (IF linha < 2
            THEN << <<"abaixo", trocar(estado, espacoVazio, espacoVazio + 3)>> >>
            ELSE <<>>)

\* Nodo(estado, pai, acao, custo).  pai is <<>> for None and <<p>> for the
\* node p; acao is "None" for the root; filhos starts as the empty list.
Nodo(estado, pai, acao, custo) ==
    [estado |-> estado, pai |-> pai, acao |-> acao, custo |-> custo,
     filhos |-> <<>>]

\* Equality decided by the path cost instead of the state.
Nodo_eq_por_custo(a, b) == a.custo = b.custo

Nodo_eq(a, b) == a.estado = b.estado

\* The comparison with the inequality turned around.
Nodo_lt_invertido(a, b) == a.custo > b.custo

Nodo_lt(a, b) == a.custo < b.custo

\* set.add on a set of Nodo: membership is decided by __hash__ / __eq__,
\* so a node equal to one already present is not added.
set_add(conjunto, nodo) ==
    IF \E n \in conjunto : Nodo_eq(n, nodo) THEN conjunto
    ELSE conjunto \cup {nodo}

\* The loop with the child's custo copied from the parent, not incremented.
RECURSIVE expande_laco_custo_do_pai(_, _, _, _)
expande_laco_custo_do_pai(nodo, sucessores, i, nodos_sucessores) ==
    IF i > Len(sucessores) THEN nodos_sucessores
    ELSE LET acao == sucessores[i][1]
             novo_estado == sucessores[i][2]
             novo_nodo == Nodo(novo_estado, <<nodo>>, acao, nodo.custo)
         IN  expande_laco_custo_do_pai(nodo, sucessores, i + 1,
                                       set_add(nodos_sucessores, novo_nodo))

RECURSIVE expande_laco(_, _, _, _)
expande_laco(nodo, sucessores, i, nodos_sucessores) ==
    IF i > Len(sucessores) THEN nodos_sucessores
    ELSE LET acao == sucessores[i][1]
             novo_estado == sucessores[i][2]
             novo_nodo == Nodo(novo_estado, <<nodo>>, acao, nodo.custo + 1)
         IN  expande_laco(nodo, sucessores, i + 1,
                          set_add(nodos_sucessores, novo_nodo))

expande(nodo) == expande_laco(nodo, sucessor(nodo.estado), 1, {})

\* The input node after the for loop of expande, with each child appended to
\* nodo.filhos as it is created (its state stands for the child).
RECURSIVE expande_nodo_laco_filhos(_, _, _)
expande_nodo_laco_filhos(nodo, sucessores, i) ==
    IF i > Len(sucessores) THEN nodo
    ELSE expande_nodo_laco_filhos(
             [nodo EXCEPT !.filhos = Append(@, sucessores[i][2])],
             sucessores, i + 1)

\* The input node after the for loop of expande has run from iteration i:
\* the body reads nodo.estado and nodo.custo and assigns no attribute of it.
RECURSIVE expande_nodo_laco(_, _, _)
expande_nodo_laco(nodo, sucessores, i) ==
    IF i > Len(sucessores) THEN nodo
    ELSE expande_nodo_laco(nodo, sucessores, i + 1)

\* The node passed to expande, as it is when expande returns.
expande_nodo(nodo) == expande_nodo_laco(nodo, sucessor(nodo.estado), 1)

\* The misplaced-symbol count that forgets to skip the blank.
hamming_heuristica_com_vazio(estado) ==
    Cardinality({i \in 0..8 : estado[i + 1] # objetivo[i + 1]})

hamming_heuristica(estado) ==
    Cardinality({i \in 0..8 :
        estado[i + 1] # objetivo[i + 1] /\ estado[i + 1] # "_"})

\* The sum that does not skip the blank: its distance to index 8 is added.
RECURSIVE manhattan_laco_com_vazio(_, _, _)
manhattan_laco_com_vazio(estado, i, distancia) ==
    IF i > 8 THEN distancia
    ELSE LET posicao_correta == index(objetivo, estado[i + 1])
             linha_correta == posicao_correta \div 3
             coluna_correta == posicao_correta % 3
             linha_atual == i \div 3
             coluna_atual == i % 3
         IN  manhattan_laco_com_vazio(estado, i + 1,
                 distancia + Abs(linha_correta - linha_atual)
                           + Abs(coluna_correta - coluna_atual))

RECURSIVE manhattan_laco(_, _, _)
manhattan_laco(estado, i, distancia) ==
    IF i > 8 THEN distancia
    ELSE IF estado[i + 1] # "_"
         THEN LET posicao_correta == index(objetivo, estado[i + 1])
                  linha_correta == posicao_correta \div 3
                  coluna_correta == posicao_correta % 3
                  linha_atual == i \div 3
                  coluna_atual == i % 3
              IN  manhattan_laco(estado, i + 1,
                      distancia + Abs(linha_correta - linha_atual)
                                + Abs(coluna_correta - coluna_atual))
         ELSE manhattan_laco(estado, i + 1, distancia)

\* The heuristic that returns before summing anything.
manhattan_heuristica_nula(estado) == 0

manhattan_heuristica(estado) == manhattan_laco(estado, 0, 0)

\* Comparison of two frontier entries (custo_f, nodo), as Python compares
\* tuples: the first position where the items differ (by ==) decides with <;
\* tuples equal at every position are not less than one another.
entrada_lt(a, b) ==
    IF a[1] # b[1] THEN a[1] < b[1]
    ELSE IF ~Nodo_eq(a[2], b[2]) THEN Nodo_lt(a[2], b[2])
    ELSE FALSE

\* A pop that may return any entry, as a plain list would.
heap_qualquer(fronteira) == BagToSet(fronteira)

\* The entries heappop may return: those no other entry is less than.  Which
\* of several such entries the heap yields depends on the order of the
\* earlier pushes (the iteration order of the set returned by expande).
heap_minimos(fronteira) ==
    {e \in BagToSet(fronteira) :
        \A o \in BagToSet(fronteira) : ~entrada_lt(o, e)}

heappush(fronteira, entrada) == fronteira (+) SetToBag({entrada})

\* The parent-chain walk, collecting acao from the node up to the root.
RECURSIVE caminho_ate_raiz(_)
caminho_ate_raiz(nodo_atual) ==
    IF nodo_atual.pai = <<>> THEN <<>>
    ELSE <<nodo_atual.acao>> \o caminho_ate_raiz(nodo_atual.pai[1])

reverse(lista) == [i \in 1..Len(lista) |-> lista[Len(lista) + 1 - i]]

\* The walk with the final caminho.reverse() left out.
reconstroi_sem_reverse(nodo_atual) == caminho_ate_raiz(nodo_atual)

reconstroi(nodo_atual) == reverse(caminho_ate_raiz(nodo_atual))

(***************************************************************************)
(* The start states and the true distances.  Every slide is undone by the  *)
(* opposite slide, so the states within k slides of the goal are found by  *)
(* breadth-first layering from the goal through sucessor.                  *)
(***************************************************************************)
vizinhos(conjunto) ==
    UNION {{sucessor(s)[i][2] : i \in 1..Len(sucessor(s))} : s \in conjunto}

\* camadas(k)[d + 1] is the set of states exactly d slides from the goal,
\* for d in 0..k.
RECURSIVE camadas(_)
camadas(k) ==
    IF k = 0 THEN <<{objetivo}>>
    ELSE LET antes == camadas(k - 1)
             vistos == UNION {antes[d] : d \in 1..k}
         IN  Append(antes, vizinhos(antes[k]) \ vistos)

Camadas == camadas(MaxEmbaralha)

\* camadas_de(origem, k)[d + 1] is the set of states exactly d slides from
\* origem, for d in 0..k.
RECURSIVE camadas_de(_, _)
camadas_de(origem, k) ==
    IF k = 0 THEN <<{origem}>>
    ELSE LET antes == camadas_de(origem, k - 1)
             vistos == UNION {antes[d] : d \in 1..k}
         IN  Append(antes, vizinhos(antes[k]) \ vistos)

\* The shortest distance from origem to each state within raio slides of it.
mapa_distancias(origem, raio) ==
    LET c == camadas_de(origem, raio)
    IN  [s \in UNION {c[d] : d \in 1..(raio + 1)} |->
            (CHOOSE d \in 1..(raio + 1) : s \in c[d]) - 1]

(***************************************************************************)
(* State.  One call sequence on one start state: bfs, dfs, astar_hamming   *)
(* and astar_manhattan are called in turn on the same string, each call    *)
(* running to completion before the next (section 5: single-threaded,      *)
(* synchronous); an exception raised by a call is recorded as its outcome  *)
(* and the caller goes on to the next function.                            *)
(*   fronteira, explorados  the locals of the running A* call              *)
(*   retorno                what each call returned or raised              *)
(*   pops                   the heappop calls of each search               *)
(*   repetidos              the states the running (or last) search passed *)
(*                          to expande more than once                      *)
(*   minimo                 the shortest distance of the start state from  *)
(*                          the goal (-1 when it is not a scramble of the  *)
(*                          goal)                                          *)
(*   distancias             the shortest distance from the start state to  *)
(*                          each state within minimo slides of it          *)
(*   primeiro               for each state of explorados, the custo of the *)
(*                          node of that state that was popped first       *)
(*   ultimo_f, ultimo_custo the custo_f and the custo of the entry the     *)
(*                          last heappop returned (-1 before the first)    *)
(***************************************************************************)
VARIABLES estado, func, fronteira, explorados, retorno, pops, repetidos,
          minimo, distancias, primeiro, ultimo_f, ultimo_custo

vars == <<estado, func, fronteira, explorados, retorno, pops, repetidos,
          minimo, distancias, primeiro, ultimo_f, ultimo_custo>>

\* The bookkeeping of the pops, which only the while loop changes.
historico == <<primeiro, ultimo_f, ultimo_custo>>

funcoes == <<"bfs", "dfs", "astar_hamming", "astar_manhattan">>

Funcoes == {funcoes[i] : i \in 1..Len(funcoes)}

pendente == [tipo |-> "pendente", caminho |-> <<>>]

retorna_lista(caminho) == [tipo |-> "lista", caminho |-> caminho]

retorna_None == [tipo |-> "None", caminho |-> <<>>]

levanta(erro) == [tipo |-> erro, caminho |-> <<>>]

\* The function the caller invokes next: the first one not yet called.
proxima ==
    LET pendentes == {i \in 1..Len(funcoes) : retorno[funcoes[i]] = pendente}
    IN  IF pendentes = {} THEN "nenhuma"
        ELSE funcoes[CHOOSE i \in pendentes : \A j \in pendentes : i <= j]

Ocioso ==
    /\ func = "nenhuma"
    /\ fronteira = EmptyBag
    /\ explorados = {}
    /\ retorno = [f \in Funcoes |-> pendente]
    /\ pops = [f \in Funcoes |-> 0]
    /\ repetidos = {}
    /\ primeiro = <<>>
    /\ ultimo_f = -1
    /\ ultimo_custo = -1

Init ==
    /\ \E d \in 0..MaxEmbaralha :
           /\ estado \in Camadas[d + 1]
           /\ minimo = d
           /\ distancias = mapa_distancias(estado, d)
    /\ Ocioso

bfs ==
    /\ func = "nenhuma"
    /\ proxima = "bfs"
    /\ retorno' = [retorno EXCEPT !["bfs"] = levanta("NotImplementedError")]
    /\ UNCHANGED <<estado, func, fronteira, explorados, pops, repetidos,
                   minimo, distancias, historico>>

dfs ==
    /\ func = "nenhuma"
    /\ proxima = "dfs"
    /\ retorno' = [retorno EXCEPT !["dfs"] = levanta("NotImplementedError")]
    /\ UNCHANGED <<estado, func, fronteira, explorados, pops, repetidos,
                   minimo, distancias, historico>>

\* The heuristic each search plugs into the shared skeleton.
heuristica(nome, e) ==
    IF nome = "astar_hamming" THEN hamming_heuristica(e)
    ELSE manhattan_heuristica(e)

\* The prologue of an A* search: root node, empty explored set, the root
\* pushed with its heuristic value.
astar_inicio(nome) ==
    /\ func = "nenhuma"
    /\ proxima = nome
    /\ LET nodo_raiz == Nodo(estado, <<>>, "None", 0)
       IN  fronteira' =
               heappush(EmptyBag,
                        <<heuristica(nome, nodo_raiz.estado), nodo_raiz>>)
    /\ explorados' = {}
    /\ func' = nome
    /\ repetidos' = {}
    /\ primeiro' = <<>>
    /\ ultimo_f' = -1
    /\ ultimo_custo' = -1
    /\ UNCHANGED <<estado, retorno, pops, minimo, distancias>>

\* The push loop with the explored test inverted.
empilhados_so_explorados(nodo_atual, explorados_novo, nome) ==
    {<<nodo_sucessor.custo + heuristica(nome, nodo_sucessor.estado),
       nodo_sucessor>> :
        nodo_sucessor \in
            {n \in expande(nodo_atual) : n.estado \in explorados_novo}}

\* The push loop with the path cost left out of custo_f.
empilhados_sem_custo(nodo_atual, explorados_novo, nome) ==
    {<<heuristica(nome, nodo_sucessor.estado), nodo_sucessor>> :
        nodo_sucessor \in
            {n \in expande(nodo_atual) : n.estado \notin explorados_novo}}

\* The entries pushed for the children of nodo_atual, given the explored set
\* after nodo_atual's state was added to it.
empilhados(nodo_atual, explorados_novo, nome) ==
    {<<nodo_sucessor.custo + heuristica(nome, nodo_sucessor.estado),
       nodo_sucessor>> :
        nodo_sucessor \in
            {n \in expande(nodo_atual) : n.estado \notin explorados_novo}}

\* One evaluation of the while condition and, when it holds, one iteration
\* of the loop body; the locals are discarded when the call returns.
astar_laco(nome) ==
    /\ func = nome
    /\ IF BagToSet(fronteira) = {}
       THEN /\ retorno' = [retorno EXCEPT ![nome] = retorna_None]
            /\ func' = "nenhuma"
            /\ fronteira' = EmptyBag
            /\ explorados' = {}
            /\ UNCHANGED <<estado, pops, repetidos, minimo, distancias,
                           historico>>
       ELSE \E entrada \in heap_minimos(fronteira) :
            LET nodo_atual == entrada[2]
                resto == fronteira (-) SetToBag({entrada})
            IN  /\ pops' = [pops EXCEPT ![nome] = @ + 1]
                /\ ultimo_f' = entrada[1]
                /\ ultimo_custo' = nodo_atual.custo
                /\ IF nodo_atual.estado = objetivo
                   THEN /\ retorno' = [retorno EXCEPT ![nome] =
                                          retorna_lista(reconstroi(nodo_atual))]
                        /\ func' = "nenhuma"
                        /\ fronteira' = EmptyBag
                        /\ explorados' = {}
                        /\ primeiro' = <<>>
                        /\ UNCHANGED repetidos
                   ELSE LET explorados_novo ==
                                explorados \cup {nodo_atual.estado}
                        IN  /\ explorados' = explorados_novo
                            /\ fronteira' = resto (+) SetToBag(
                                   empilhados(nodo_atual, explorados_novo,
                                              nome))
                            /\ repetidos' =
                                   IF nodo_atual.estado \in explorados
                                   THEN repetidos \cup {nodo_atual.estado}
                                   ELSE repetidos
                            /\ primeiro' =
                                   [s \in explorados_novo |->
                                       IF s \in explorados THEN primeiro[s]
                                       ELSE nodo_atual.custo]
                            /\ UNCHANGED <<func, retorno>>
                /\ UNCHANGED <<estado, minimo, distancias>>

astar_hamming_inicio == astar_inicio("astar_hamming")

astar_hamming_laco == astar_laco("astar_hamming")

astar_manhattan_inicio == astar_inicio("astar_manhattan")

astar_manhattan_laco == astar_laco("astar_manhattan")

Next ==
    \/ bfs
    \/ dfs
    \/ astar_hamming_inicio
    \/ astar_hamming_laco
    \/ astar_manhattan_inicio
    \/ astar_manhattan_laco

Spec == Init /\ [][Next]_vars

\* Each call runs to completion once started and the caller makes every call:
\* a step that is possible is eventually taken.
InitJusta ==
    /\ \E d \in 0..MaxJusta :
           /\ estado \in camadas(MaxJusta)[d + 1]
           /\ minimo = d
           /\ distancias = mapa_distancias(estado, d)
    /\ Ocioso

SpecJusta == InitJusta /\ [][Next]_vars /\ WF_vars(Next)

(***************************************************************************)
(* The successor generator on its own: starting from the goal and from the *)
(* unsolvable instance, every legal slide is applied again and again, which *)
(* visits every well-formed state (both parity classes).                   *)
(***************************************************************************)
InitSucessor ==
    /\ estado \in {objetivo, insoluvel}
    /\ minimo = -1
    /\ distancias = <<>>
    /\ Ocioso

mover ==
    /\ \E i \in 1..Len(sucessor(estado)) : estado' = sucessor(estado)[i][2]
    /\ UNCHANGED <<func, fronteira, explorados, retorno, pops, repetidos,
                   minimo, distancias, historico>>

NextSucessor == mover

SpecSucessor == InitSucessor /\ [][NextSucessor]_vars

(***************************************************************************)
(* Properties.                                                             *)
(***************************************************************************)
Astar == {"astar_hamming", "astar_manhattan"}

\* Replaying a move list from s: each label is applied through the pair of
\* sucessor carrying it; <<>> when some label has no pair.
RECURSIVE aplica(_, _)
aplica(s, caminho) ==
    IF caminho = <<>> THEN s
    ELSE LET pares == sucessor(s)
             com_rotulo == {i \in 1..Len(pares) : pares[i][1] = Head(caminho)}
         IN  IF com_rotulo = {} THEN <<>>
             ELSE aplica(pares[CHOOSE i \in com_rotulo : TRUE][2],
                         Tail(caminho))

\* C1: whenever astar_hamming or astar_manhattan returns a list, replaying
\* its labels in order from the start state through sucessor is possible at
\* every step and ends exactly in the goal state.
C1_CaminhoLevaAoObjetivo ==
    \A f \in Astar :
        retorno[f].tipo = "lista" => aplica(estado, retorno[f].caminho) = objetivo

C1_Testemunha ==
    /\ retorno["astar_hamming"].tipo = "lista"
    /\ retorno["astar_manhattan"].tipo = "lista"
    /\ Len(retorno["astar_manhattan"].caminho) >= 5
    /\ aplica(estado, retorno["astar_manhattan"].caminho) = objetivo

\* C2: the move list returned by astar_hamming and by astar_manhattan has
\* length equal to the shortest-path distance from the start to the goal,
\* also in searches that held several nodes of one state in the frontier.
C2_CaminhoMinimo ==
    \A f \in Astar :
        retorno[f].tipo = "lista" => Len(retorno[f].caminho) = minimo

C2_Testemunha ==
    /\ func = "nenhuma"
    /\ retorno["astar_manhattan"].tipo = "lista"
    /\ Len(retorno["astar_manhattan"].caminho) = minimo
    /\ minimo >= 7
    /\ repetidos # {}

\* C3: called with the start state equal to the goal, every one of bfs, dfs,
\* astar_hamming and astar_manhattan returns an empty move sequence and
\* never raises.
C3_JaResolvido ==
    estado = objetivo =>
        \A f \in Funcoes : retorno[f] \in {pendente, retorna_lista(<<>>)}

\* C5: from a start state from which the goal is reachable, astar_hamming
\* and astar_manhattan each eventually return a move list, and neither ever
\* returns the no-solution signal None.
C5_SoluvelRetornaLista ==
    /\ <>(/\ retorno["astar_hamming"].tipo = "lista"
          /\ retorno["astar_manhattan"].tipo = "lista")
    /\ [](\A f \in Astar : retorno[f].tipo # "None")

C5_Testemunha ==
    /\ estado # objetivo
    /\ minimo >= 1
    /\ retorno["astar_hamming"].tipo = "lista"
    /\ retorno["astar_manhattan"].tipo = "lista"
    /\ retorno["astar_manhattan"] # retorna_None

bem_formado(s) ==
    /\ Len(s) = 9
    /\ \A c \in Simbolos : Cardinality({i \in 1..9 : s[i] = c}) = 1

posicao_vazio(s) == CHOOSE i \in 0..8 : s[i + 1] = "_"

\* C6: for every well-formed state, sucessor returns exactly 2 entries when
\* the blank is in a corner, 3 on an edge and 4 in the center, with no
\* duplicate entries, every resulting state is a permutation of the nine
\* symbols, and every state reached by any sequence of moves is well-formed.
C6_QuantidadeEPermutacao ==
    /\ bem_formado(estado)
    /\ LET pares == sucessor(estado)
           b == posicao_vazio(estado)
           esperado == IF b \in {0, 2, 6, 8} THEN 2
                       ELSE IF b = 4 THEN 4 ELSE 3
       IN  /\ Len(pares) = esperado
           /\ \A i, j \in 1..Len(pares) : i # j => pares[i] # pares[j]
           /\ \A i \in 1..Len(pares) : bem_formado(pares[i][2])

C6_Testemunha ==
    /\ estado \notin {objetivo, insoluvel}
    /\ posicao_vazio(estado) = 4
    /\ estado[1] = "8"
    /\ Len(sucessor(estado)) = 4

\* C7: with the blank at index b, sucessor has an entry labelled "esquerda"
\* iff column > 0, "direita" iff column < 2, "acima" iff row > 0, "abaixo"
\* iff row < 2, and the state paired with each label is the input with only
\* the blank and the symbol at b-1, b+1, b-3, b+3 respectively swapped.
C7_RotulosEDeslizes ==
    LET b == posicao_vazio(estado)
        linha == b \div 3
        coluna == b % 3
        pares == sucessor(estado)
        tem(rotulo) == \E i \in 1..Len(pares) : pares[i][1] = rotulo
        desliza(rotulo, alvo) ==
            \A i \in 1..Len(pares) :
                pares[i][1] = rotulo =>
                    LET t == pares[i][2]
                    IN  /\ Len(t) = 9
                        /\ t[alvo + 1] = "_"
                        /\ t[b + 1] = estado[alvo + 1]
                        /\ \A k \in 1..9 \ {b + 1, alvo + 1} : t[k] = estado[k]
    IN  /\ tem("esquerda") <=> coluna > 0
        /\ tem("direita") <=> coluna < 2
        /\ tem("acima") <=> linha > 0
        /\ tem("abaixo") <=> linha < 2
        /\ \A i \in 1..Len(pares) :
               pares[i][1] \in {"esquerda", "direita", "acima", "abaixo"}
        /\ desliza("esquerda", b - 1)
        /\ desliza("direita", b + 1)
        /\ desliza("acima", b - 3)
        /\ desliza("abaixo", b + 3)

C7_Testemunha ==
    /\ estado \notin {objetivo, insoluvel}
    /\ posicao_vazio(estado) = 3
    /\ estado[1] = "5"
    /\ \E i \in 1..Len(sucessor(estado)) :
           /\ sucessor(estado)[i][1] = "acima"
           /\ sucessor(estado)[i][2][1] = "_"
           /\ sucessor(estado)[i][2][4] = "5"
    /\ \A i \in 1..Len(sucessor(estado)) : sucessor(estado)[i][1] # "esquerda"

\* C8: expande(n) returns exactly one child per entry of sucessor(n.estado),
\* and every child has that entry's state and label, pai equal to n and
\* custo equal to n.custo + 1; checked on every node of the frontier.
C8_ExpandeUmFilhoPorSucessor ==
    \A e \in BagToSet(fronteira) :
        LET n == e[2]
            pares == sucessor(n.estado)
            filhos == expande(n)
        IN  /\ Cardinality(filhos) = Len(pares)
            /\ \A i \in 1..Len(pares) :
                   Cardinality({c \in filhos :
                       /\ c.estado = pares[i][2]
                       /\ c.acao = pares[i][1]
                       /\ c.pai = <<n>>
                       /\ c.custo = n.custo + 1}) = 1

C8_Testemunha ==
    \E e \in BagToSet(fronteira) :
        /\ e[2].custo >= 3
        /\ e[2].pai # <<>>
        /\ Cardinality(expande(e[2])) = 4
        /\ \A c \in expande(e[2]) : c.custo = e[2].custo + 1 /\ c.pai = <<e[2]>>

\* C9: both heuristics are 0 on the goal; on every other well-formed state
\* both are strictly positive and manhattan_heuristica is at least
\* hamming_heuristica.
C9_HeuristicasNoObjetivoEFora ==
    IF estado = objetivo
    THEN hamming_heuristica(estado) = 0 /\ manhattan_heuristica(estado) = 0
    ELSE /\ hamming_heuristica(estado) > 0
         /\ manhattan_heuristica(estado) > 0
         /\ manhattan_heuristica(estado) >= hamming_heuristica(estado)

C9_Testemunha ==
    /\ estado # objetivo
    /\ hamming_heuristica(estado) = 8
    /\ manhattan_heuristica(estado) > hamming_heuristica(estado)

\* C10: for the same start state, the number of nodes astar_manhattan pops
\* from its frontier before returning is never greater than the number
\* astar_hamming pops, whatever entries the heap yields among ties.
C10_ManhattanNaoExpandeMais ==
    retorno["astar_manhattan"].tipo # "pendente" =>
        pops["astar_manhattan"] <= pops["astar_hamming"]

C10_Testemunha ==
    /\ retorno["astar_manhattan"].tipo = "lista"
    /\ retorno["astar_hamming"].tipo = "lista"
    /\ minimo >= 6
    /\ pops["astar_manhattan"] < pops["astar_hamming"]

\* C11: from a start state from which the goal is reachable, bfs returns a
\* move sequence whose length is the minimal number of moves to the goal.
C11_BfsCaminhoMinimo ==
    retorno["bfs"] # pendente =>
        /\ retorno["bfs"].tipo = "lista"
        /\ Len(retorno["bfs"].caminho) = minimo

\* C12: both heuristics are consistent across one move: for every
\* well-formed state s and every successor state t of s,
\* hamming_heuristica(s) <= 1 + hamming_heuristica(t) and
\* manhattan_heuristica(s) <= 1 + manhattan_heuristica(t).
C12_HeuristicasConsistentes ==
    \A i \in 1..Len(sucessor(estado)) :
        LET t == sucessor(estado)[i][2]
        IN  /\ hamming_heuristica(estado) <= 1 + hamming_heuristica(t)
            /\ manhattan_heuristica(estado) <= 1 + manhattan_heuristica(t)

C12_Testemunha ==
    /\ estado \notin {objetivo, insoluvel}
    /\ hamming_heuristica(estado) >= 4
    /\ \E i \in 1..Len(sucessor(estado)) :
           LET t == sucessor(estado)[i][2]
           IN  /\ hamming_heuristica(estado) = 1 + hamming_heuristica(t)
               /\ manhattan_heuristica(estado) = 1 + manhattan_heuristica(t)

\* C14: during one A* search no state is expanded (popped as a non-goal
\* node, added to explorados and passed to expande) more than once.
C14_NenhumEstadoReexpandido == repetidos = {}

\* The number of pai links from a node to the root, and that root.
RECURSIVE profundidade(_)
profundidade(n) == IF n.pai = <<>> THEN 0 ELSE 1 + profundidade(n.pai[1])

RECURSIVE raiz(_)
raiz(n) == IF n.pai = <<>> THEN n ELSE raiz(n.pai[1])

\* C15: every frontier entry (f, n) has f = n.custo + h(n.estado) for the
\* search's heuristic h, n.custo equal to the number of pai links from n to
\* the root, the root's state equal to the start state, and the acao labels
\* along the chain, replayed from the start state, yield n.estado.
C15_EntradasDaFronteira ==
    \A e \in BagToSet(fronteira) :
        LET n == e[2]
        IN  /\ func \in Astar
            /\ e[1] = n.custo + heuristica(func, n.estado)
            /\ n.custo = profundidade(n)
            /\ raiz(n).estado = estado
            /\ aplica(estado, reconstroi(n)) = n.estado

C15_Testemunha ==
    \E e \in BagToSet(fronteira) :
        /\ func = "astar_manhattan"
        /\ e[2].custo >= 4
        /\ profundidade(e[2]) = e[2].custo
        /\ e[1] = e[2].custo + manhattan_heuristica(e[2].estado)
        /\ e[1] > e[2].custo
        /\ aplica(estado, reconstroi(e[2])) = e[2].estado

\* C16: expande does not mutate its input node: after expande(n) returns,
\* n.estado, n.pai, n.acao, n.custo and n.filhos are what they were, and the
\* created children are not recorded in n.filhos; checked on every node of
\* the frontier.
C16_ExpandeNaoMutaONodo ==
    \A e \in BagToSet(fronteira) :
        LET n == e[2]
            depois == expande_nodo(n)
        IN  /\ depois.estado = n.estado
            /\ depois.pai = n.pai
            /\ depois.acao = n.acao
            /\ depois.custo = n.custo
            /\ depois.filhos = n.filhos
            /\ depois.filhos = <<>>

C16_Testemunha ==
    \E e \in BagToSet(fronteira) :
        /\ e[2].custo >= 2
        /\ Cardinality(expande(e[2])) >= 3
        /\ expande_nodo(e[2]) = e[2]
        /\ e[2].filhos = <<>>

\* C13: in each A* search, the first node of a given state popped from the
\* frontier has custo equal to the shortest-path distance from the start
\* state to that state, and no node of that state with a smaller custo is
\* in the frontier (pushed, or waiting to be popped) afterwards.
C13_PrimeiroPopComCustoMinimo ==
    /\ \A s \in DOMAIN primeiro :
           s \in DOMAIN distancias /\ primeiro[s] = distancias[s]
    /\ \A e \in BagToSet(fronteira) :
           e[2].estado \in DOMAIN primeiro =>
               e[2].custo >= primeiro[e[2].estado]

C13_Testemunha ==
    /\ func \in Astar
    /\ \E s \in DOMAIN primeiro : primeiro[s] >= 5 /\ primeiro[s] = distancias[s]
    /\ \E e \in BagToSet(fronteira) :
           /\ e[2].estado \in DOMAIN primeiro
           /\ e[2].custo >= primeiro[e[2].estado]

\* C17: in each A* search the f-values of successively popped frontier
\* entries are non-decreasing over the whole run.
C17_FNaoDecresce ==
    [][(ultimo_f # -1 /\ ultimo_f' # -1) => ultimo_f' >= ultimo_f]_vars

C17_Testemunha ==
    /\ func = "astar_hamming"
    /\ pops["astar_hamming"] >= 5
    /\ ultimo_f > hamming_heuristica(estado)

\* The order of frontier entries by custo_f, then by the node's custo.
lexicografico_lt(a, b) ==
    \/ a[1] < b[1]
    \/ a[1] = b[1] /\ a[2].custo < b[2].custo

\* C18: two frontier entries with equal f and equal state have equal custo;
\* the comparison of entries is the lexicographic order on (f, custo), a
\* strict weak order; and every pop returns an entry of minimal f whose node
\* has the smallest custo among the entries of that f.
C18_DesempatePorCusto ==
    /\ [](\A a, b \in BagToSet(fronteira) :
            /\ (a[1] = b[1] /\ a[2].estado = b[2].estado) =>
                   a[2].custo = b[2].custo
            /\ entrada_lt(a, b) <=> lexicografico_lt(a, b))
    /\ [][pops' # pops =>
            \A e \in BagToSet(fronteira) :
                /\ ultimo_f' <= e[1]
                /\ e[1] = ultimo_f' => ultimo_custo' <= e[2].custo]_vars

C18_Testemunha ==
    /\ func \in Astar
    /\ ultimo_f # -1
    /\ \E e \in BagToSet(fronteira) :
           e[1] = ultimo_f /\ e[2].custo > ultimo_custo
    /\ \A e \in BagToSet(fronteira) : e[1] >= ultimo_f

====
